---- MODULE Spec2Model ----
(***************************************************************************)
(* zignal: a multi-client chat server (src/src/server/server.c).  The      *)
(* listener accepts connections and starts one detached thread per         *)
(* connection (handle_client); the threads share the client_sockets array  *)
(* under clients_mutex (add_client, remove_client, broadcast_message).     *)
(*                                                                         *)
(* Socket handles are file descriptors, written 1, 2, ...; 0 is the value  *)
(* of an empty slot of client_sockets.  A byte string is not kept byte by  *)
(* byte: a payload is the pair (number of bytes read, position of its      *)
(* first NUL byte or 0), and a formatted message records the id printed in *)
(* its tag, how many payload bytes follow the tag and how many bytes that  *)
(* are not payload follow those.                                           *)
(***************************************************************************)
EXTENDS Integers, Sequences, FiniteSets, TLC

\* ---------------------------------------------------------------- constants
MAX_CLIENTS == 10
BUFFER_SIZE == 1024

\* ------------------------------------------------------------------- bounds
\* connections the listener accepts during a run
MaxAccepts == 2
\* calls of add_client and remove_client the caller of RegSpec makes
MaxCalls == 4
\* non-empty reads (messages) during a run, over all sessions
MaxReads == 2
\* clients that close their end during a run
MaxHangups == 1
\* clients that never read what the server sends, so that writes to them block
MaxStalls == 1
\* reads the client's receive loop makes during a run
MaxRxReads == 3
\* lines the client's send loop writes during a run
MaxLines == 2
\* Values rand() yields for client_id.  The values are labels: a session
\* draws an id that an earlier session drew, or the least one not yet drawn.
Ids == {1, 2}
\* how many bytes of adjacent memory printing an unterminated buffer picks up
\* (below the room message_with_id leaves after the tag and the buffer)
Garbage == {0, 1}

\* The clients connected before the run starts: none, or one fewer than the
\* registry holds.  Their sessions are blocked in read; they stay connected
\* and send nothing during the run.  They are alike, and the first of them may
\* be one that does not read what the server sends.
InitialSessions == 1..(MAX_CLIENTS - 1)
InitialPeers == {0, MAX_CLIENTS - 1}

MaxSessions == MAX_CLIENTS - 1 + MaxAccepts
Sessions == 1..MaxSessions
\* the sessions of the connections accepted during the run
Accepted == Sessions \ InitialSessions
Handles == 1..MaxSessions
Slots == 1..MAX_CLIENTS
\* a payload of len bytes; nul is the position of its first NUL byte, 0 if none
Payloads == {[len |-> 1, nul |-> 0], [len |-> 2, nul |-> 2],
             [len |-> BUFFER_SIZE, nul |-> 0]}
\* buffer holds a payload and, beside it, the number of the read that brought it
NoPayload == [len |-> 0, nul |-> 0, no |-> 0]
NoMessage == [id |-> 0, taken |-> 0, extra |-> 0]

VARIABLES
    client_sockets,   \* server.c:16, Slots -> handle or 0
    clients_mutex,    \* server.c:17, 0 when free, else the session holding it
    pc,               \* where each session's thread is
    new_socket,       \* handle_client's new_socket, 0 before the accept
    client_id,        \* client_info->client_id
    buffer,           \* the payload of the last read
    message_with_id,  \* the message formatted from it
    i,                \* broadcast_message's loop index
    conn,             \* state of each descriptor's connection
    full,             \* descriptors whose client does not read
    alive,            \* the server process has not been killed
    wire,             \* the writes made to each descriptor's connection, in order
    sentTo,           \* the handles each session's current broadcast has written to
    added,            \* handles passed to add_client and not yet to remove_client
    reads,            \* messages read so far
    hangups,          \* client hang-ups so far
    accepts,          \* connections accepted so far
    calls,            \* registry calls made by the caller of RegSpec
    client_sock,      \* client.c:28, the client's socket, as the client finds it
    valread,          \* client.c:19, how the receive loop's last read ended
    rx_reads,         \* reads the receive loop has made
    printed,          \* reads the receive loop has printed
    tx_pc,            \* where the client's send loop is
    sent              \* what the send loop has written to the socket, in order

vars == <<client_sockets, clients_mutex, pc, new_socket, client_id, buffer,
          message_with_id, i, conn, full, alive, wire, sentTo, added, reads,
          hangups, accepts, calls, client_sock, valread, rx_reads, printed,
          tx_pc, sent>>

\* the variables of the server and those of one client process
serverVars == <<client_sockets, clients_mutex, pc, new_socket, client_id,
                buffer, message_with_id, i, conn, full, alive, wire, sentTo,
                added, reads, hangups, accepts, calls>>
clientVars == <<client_sock, valread, rx_reads, printed, tx_pc, sent>>

\* ------------------------------------------------------------------ helpers
Min(S) == CHOOSE x \in S : \A y \in S : x <= y
Registered(reg) == {reg[k] : k \in Slots} \ {0}
OpenHandles == {h \in Handles : conn[h] # "free"}
IdsDrawn == {client_id[s] : s \in Sessions} \ {0}
FreshIds == {id \in Ids : \A d \in IdsDrawn : d < id}
IdChoices == IdsDrawn \cup (IF FreshIds = {} THEN {} ELSE {Min(FreshIds)})

\* accept() returns the lowest descriptor that is not open
LowestFree == Min(Handles \ OpenHandles)

\* -------------------------------------------------- the registry, server.c
\* add_client gone wrong: with no empty slot, the last slot takes the handle
AddClientScanOverwrite(reg, sock) ==
    IF \E k \in Slots : reg[k] = 0
    THEN [reg EXCEPT ![Min({k \in Slots : reg[k] = 0})] = sock]
    ELSE [reg EXCEPT ![MAX_CLIENTS] = sock]

\* the loop of add_client: the first empty slot takes the handle
AddClientScan(reg, sock) ==
    IF \E k \in Slots : reg[k] = 0
    THEN [reg EXCEPT ![Min({k \in Slots : reg[k] = 0})] = sock]
    ELSE reg

\* remove_client gone wrong: the loop's test never matches
RemoveClientScanSkip(reg, sock) == reg

\* remove_client gone wrong: "=" for "==" in the test of the loop, which then
\* stores the handle in the first slot, finds it non-zero and empties the slot
RemoveClientScanAssign(reg, sock) == [reg EXCEPT ![1] = 0]

\* remove_client gone wrong: the loop index is used after a loop that found
\* nothing, and the last slot is emptied
RemoveClientScanLast(reg, sock) ==
    IF \E k \in Slots : reg[k] = sock
    THEN [reg EXCEPT ![Min({k \in Slots : reg[k] = sock})] = 0]
    ELSE [reg EXCEPT ![MAX_CLIENTS] = 0]

\* the loop of remove_client: the first slot holding the handle is emptied
RemoveClientScan(reg, sock) ==
    IF \E k \in Slots : reg[k] = sock
    THEN [reg EXCEPT ![Min({k \in Slots : reg[k] = sock})] = 0]
    ELSE reg

\* the test of broadcast_message's loop
IsRecipient(reg, k, sender_socket) == reg[k] # 0 /\ reg[k] # sender_socket

\* the loop of broadcast_message from index k on: the index of the next slot
\* it sends to, MAX_CLIENTS + 1 when it runs off the end
NextRecipient(reg, k, sender_socket) ==
    LET R == {j \in Slots : j >= k /\ IsRecipient(reg, j, sender_socket)}
    IN  IF R = {} THEN MAX_CLIENTS + 1 ELSE Min(R)

\* a lock that does not wait for the mutex to be free
MutexLockNoWait(s) == clients_mutex' = s

\* pthread_mutex_lock / pthread_mutex_unlock on clients_mutex
MutexLock(s) == clients_mutex = 0 /\ clients_mutex' = s
MutexUnlock(s) == clients_mutex' = 0

\* ------------------------------------------------ formatting, server.c:99-101
\* strlen of buffer after memset and a read of p: the bytes before the first
\* NUL; a read that fills the buffer leaves no NUL in it, and the scan runs on
\* into g bytes of whatever follows the buffer
CStrLen(p, g) ==
    IF p.nul > 0 THEN p.nul - 1
    ELSE IF p.len < BUFFER_SIZE THEN p.len
    ELSE BUFFER_SIZE + g

FormatMessage(id, p, g) ==
    LET n == CStrLen(p, g)
    IN  [id |-> id,
         taken |-> IF n <= p.len THEN n ELSE p.len,
         extra |-> IF n <= p.len THEN 0 ELSE n - p.len]

\* ------------------------------------------------------------------- Init
InitFor(n, stalled) ==
    /\ client_sockets = [k \in Slots |-> IF k <= n THEN k ELSE 0]
    /\ clients_mutex = 0
    /\ pc = [s \in Sessions |-> IF s <= n THEN "read" ELSE "none"]
    /\ new_socket = [s \in Sessions |-> IF s <= n THEN s ELSE 0]
    /\ client_id = [s \in Sessions |-> IF s <= n THEN 1 ELSE 0]
    /\ buffer = [s \in Sessions |-> NoPayload]
    /\ message_with_id = [s \in Sessions |-> NoMessage]
    /\ i = [s \in Sessions |-> 0]
    /\ conn = [h \in Handles |-> IF h <= n THEN "up" ELSE "free"]
    /\ full = stalled
    /\ alive = TRUE
    /\ wire = [h \in Handles |-> <<>>]
    /\ sentTo = [s \in Sessions |-> {}]
    /\ added = {h \in Handles : h <= n}
    /\ reads = 0
    /\ hangups = 0
    /\ accepts = 0
    /\ calls = 0
    /\ client_sock = "up"
    /\ valread = "none"
    /\ rx_reads = 0
    /\ printed = 0
    /\ tx_pc = "loop"
    /\ sent = <<>>

Init ==
    \E n \in InitialPeers :
        \E stalled \in SUBSET {h \in {1} : h <= n} :
            Cardinality(stalled) <= MaxStalls /\ InitFor(n, stalled)

\* --------------------------------------------------------------- listener
\* start_server's loop: accept, then a detached thread running handle_client
Accept ==
    /\ alive
    /\ accepts < MaxAccepts
    /\ \E s \in Sessions :
        /\ s \in Accepted
        /\ pc[s] = "none"
        /\ \A t \in Accepted : t < s => pc[t] # "none"
        /\ LET h == LowestFree
           IN  /\ new_socket' = [new_socket EXCEPT ![s] = h]
               /\ conn' = [conn EXCEPT ![h] = "up"]
               /\ wire' = [wire EXCEPT ![h] = <<>>]
               /\ \/ UNCHANGED full
                  \/ Cardinality(full) < MaxStalls /\ full' = full \cup {h}
        /\ pc' = [pc EXCEPT ![s] = "start"]
    /\ accepts' = accepts + 1
    /\ UNCHANGED <<client_sockets, clients_mutex, client_id, buffer,
                   message_with_id, i, alive, sentTo, added, reads, hangups,
                   calls>>
    /\ UNCHANGED clientVars

\* ------------------------------------------------- transport (the sockets)
\* close(fd)
CloseSocket(h) ==
    /\ conn' = [conn EXCEPT ![h] = "free"]
    /\ full' = full \ {h}

\* a send whose bytes overtake what is already queued on the connection
SendFront(s, t) ==
    IF conn[t] = "reset"
    THEN /\ alive' = FALSE
         /\ UNCHANGED <<conn, wire, sentTo, pc, i>>
    ELSE /\ conn' = IF conn[t] = "peer_closed"
                    THEN [conn EXCEPT ![t] = "reset"] ELSE conn
         /\ wire' = IF conn[t] = "free" THEN wire
                    ELSE [wire EXCEPT ![t] =
                             <<[from |-> s, no |-> buffer[s].no]>> \o @]
         /\ sentTo' = [sentTo EXCEPT ![s] = @ \cup {t}]
         /\ LET k == NextRecipient(client_sockets, i[s] + 1, new_socket[s])
            IN  /\ i' = [i EXCEPT ![s] = k]
                /\ pc' = [pc EXCEPT ![s] =
                              IF k > MAX_CLIENTS THEN "bc_unlock" ELSE "bc_send"]
         /\ UNCHANGED alive

\* send(t, message, strlen(message), 0) by session s, server.c:50.  The flags
\* are 0 and SIGPIPE keeps its default action, so a write to a connection the
\* peer has reset kills the process; a write to a connection the peer has
\* closed is accepted and answered by a reset; a write to a descriptor that is
\* not open fails.  The return value is not looked at.  The bytes written are
\* message_with_id of s; wire keeps, for each write, the sender and the number
\* of the read the message was formatted from.
Send(s, t) ==
    IF conn[t] = "reset"
    THEN /\ alive' = FALSE
         /\ UNCHANGED <<conn, wire, sentTo, pc, i>>
    ELSE /\ conn' = IF conn[t] = "peer_closed"
                    THEN [conn EXCEPT ![t] = "reset"] ELSE conn
         /\ wire' = IF conn[t] = "free" THEN wire
                    ELSE [wire EXCEPT ![t] =
                             Append(@, [from |-> s, no |-> buffer[s].no])]
         /\ sentTo' = [sentTo EXCEPT ![s] = @ \cup {t}]
         /\ LET k == NextRecipient(client_sockets, i[s] + 1, new_socket[s])
            IN  /\ i' = [i EXCEPT ![s] = k]
                /\ pc' = [pc EXCEPT ![s] =
                              IF k > MAX_CLIENTS THEN "bc_unlock" ELSE "bc_send"]
         /\ UNCHANGED alive

\* handle_client whose allocation-failure path exits without closing the socket
StartLeak(s) ==
    /\ alive
    /\ pc[s] = "start"
    /\ \/ /\ \E id \in IdChoices : client_id' = [client_id EXCEPT ![s] = id]
          /\ pc' = [pc EXCEPT ![s] = "add_lock"]
       \/ /\ pc' = [pc EXCEPT ![s] = "done"]
          /\ UNCHANGED client_id
    /\ UNCHANGED <<client_sockets, clients_mutex, new_socket, buffer,
                   message_with_id, i, conn, full, alive, wire, sentTo, added,
                   reads, hangups, accepts, calls>>
    /\ UNCHANGED clientVars

\* ------------------------------------------------- handle_client, server.c
\* lines 57-83: the per-session state is allocated and the id drawn; when the
\* allocation fails the socket is closed and the thread exits
Start(s) ==
    /\ alive
    /\ pc[s] = "start"
    /\ \/ /\ \E id \in IdChoices : client_id' = [client_id EXCEPT ![s] = id]
          /\ pc' = [pc EXCEPT ![s] = "add_lock"]
          /\ UNCHANGED <<conn, full>>
       \/ /\ CloseSocket(new_socket[s])
          /\ pc' = [pc EXCEPT ![s] = "done"]
          /\ UNCHANGED client_id
    /\ UNCHANGED <<client_sockets, clients_mutex, new_socket, buffer,
                   message_with_id, i, alive, wire, sentTo, added, reads,
                   hangups, accepts, calls>>
    /\ UNCHANGED clientVars

\* add_client, server.c:21-30
AddLock(s) ==
    /\ alive
    /\ pc[s] = "add_lock"
    /\ MutexLock(s)
    /\ pc' = [pc EXCEPT ![s] = "add_cs"]
    /\ UNCHANGED <<client_sockets, new_socket, client_id, buffer,
                   message_with_id, i, conn, full, alive, wire, sentTo, added,
                   reads, hangups, accepts, calls>>
    /\ UNCHANGED clientVars

AddBody(s) ==
    /\ alive
    /\ pc[s] = "add_cs"
    /\ client_sockets' = AddClientScan(client_sockets, new_socket[s])
    /\ added' = added \cup {new_socket[s]}
    /\ pc' = [pc EXCEPT ![s] = "add_unlock"]
    /\ UNCHANGED <<clients_mutex, new_socket, client_id, buffer,
                   message_with_id, i, conn, full, alive, wire, sentTo, reads,
                   hangups, accepts, calls>>
    /\ UNCHANGED clientVars

AddUnlock(s) ==
    /\ alive
    /\ pc[s] = "add_unlock"
    /\ MutexUnlock(s)
    /\ pc' = [pc EXCEPT ![s] = "read"]
    /\ UNCHANGED <<client_sockets, new_socket, client_id, buffer,
                   message_with_id, i, conn, full, alive, wire, sentTo, added,
                   reads, hangups, accepts, calls>>
    /\ UNCHANGED clientVars

\* lines 92-104 with valread > 0: the payload is read and formatted
ReadInto(s) ==
    /\ alive
    /\ pc[s] = "read"
    /\ conn[new_socket[s]] = "up"
    /\ reads < MaxReads
    /\ \E p \in Payloads, g \in Garbage :
        /\ buffer' = [buffer EXCEPT ![s] =
                          [len |-> p.len, nul |-> p.nul, no |-> reads + 1]]
        /\ message_with_id' =
               [message_with_id EXCEPT ![s] = FormatMessage(client_id[s], p, g)]
    /\ reads' = reads + 1
    /\ pc' = [pc EXCEPT ![s] = "bc_lock"]
    /\ UNCHANGED <<client_sockets, clients_mutex, new_socket, client_id, i,
                   conn, full, alive, wire, sentTo, added, hangups, accepts, calls>>
    /\ UNCHANGED clientVars

\* the sessions that receive payloads during a run are the accepted ones
ReadPayload(s) == s \in Accepted /\ ReadInto(s)

\* handle_client leaving its loop and closing without remove_client
ReadEndNoRemove(s) ==
    /\ alive
    /\ pc[s] = "read"
    /\ conn[new_socket[s]] \in {"peer_closed", "reset"}
    /\ pc' = [pc EXCEPT ![s] = "close"]
    /\ UNCHANGED <<client_sockets, clients_mutex, new_socket, client_id,
                   buffer, message_with_id, i, conn, full, alive, wire, sentTo,
                   added, reads, hangups, accepts, calls>>
    /\ UNCHANGED clientVars

\* handle_client closing the socket before remove_client instead of after it
ReadEndCloseFirst(s) ==
    /\ alive
    /\ pc[s] = "read"
    /\ conn[new_socket[s]] \in {"peer_closed", "reset"}
    /\ CloseSocket(new_socket[s])
    /\ pc' = [pc EXCEPT ![s] = "rm_lock"]
    /\ UNCHANGED <<client_sockets, clients_mutex, new_socket, client_id,
                   buffer, message_with_id, i, alive, wire, sentTo, added,
                   reads, hangups, accepts, calls>>
    /\ UNCHANGED clientVars

\* lines 93-97 with valread <= 0: end of stream or a read error
ReadEnd(s) ==
    /\ alive
    /\ pc[s] = "read"
    /\ conn[new_socket[s]] \in {"peer_closed", "reset"}
    /\ pc' = [pc EXCEPT ![s] = "rm_lock"]
    /\ UNCHANGED <<client_sockets, clients_mutex, new_socket, client_id,
                   buffer, message_with_id, i, conn, full, alive, wire, sentTo,
                   added, reads, hangups, accepts, calls>>
    /\ UNCHANGED clientVars

\* broadcast_message entered without taking the mutex
BcLockNone(s) ==
    /\ alive
    /\ pc[s] = "bc_lock"
    /\ pc' = [pc EXCEPT ![s] = "bc_scan"]
    /\ UNCHANGED <<client_sockets, clients_mutex, new_socket, client_id,
                   buffer, message_with_id, i, conn, full, alive, wire, sentTo,
                   added, reads, hangups, accepts, calls>>
    /\ UNCHANGED clientVars

\* broadcast_message, server.c:46-54
BcLock(s) ==
    /\ alive
    /\ pc[s] = "bc_lock"
    /\ MutexLock(s)
    /\ pc' = [pc EXCEPT ![s] = "bc_scan"]
    /\ UNCHANGED <<client_sockets, new_socket, client_id, buffer,
                   message_with_id, i, conn, full, alive, wire, sentTo, added,
                   reads, hangups, accepts, calls>>
    /\ UNCHANGED clientVars

\* broadcast_message giving the mutex back before its first send
BcScanRelease(s) ==
    /\ alive
    /\ pc[s] = "bc_scan"
    /\ clients_mutex' = 0
    /\ LET k == NextRecipient(client_sockets, 1, new_socket[s])
       IN  /\ i' = [i EXCEPT ![s] = k]
           /\ pc' = [pc EXCEPT ![s] =
                         IF k > MAX_CLIENTS THEN "bc_unlock" ELSE "bc_send"]
    /\ UNCHANGED <<client_sockets, new_socket, client_id, buffer,
                   message_with_id, conn, full, alive, wire, sentTo, added,
                   reads, hangups, accepts, calls>>
    /\ UNCHANGED clientVars

\* the loop runs up to its first send, or to its end
BcScan(s) ==
    /\ alive
    /\ pc[s] = "bc_scan"
    /\ LET k == NextRecipient(client_sockets, 1, new_socket[s])
       IN  /\ i' = [i EXCEPT ![s] = k]
           /\ pc' = [pc EXCEPT ![s] =
                         IF k > MAX_CLIENTS THEN "bc_unlock" ELSE "bc_send"]
    /\ UNCHANGED <<client_sockets, clients_mutex, new_socket, client_id,
                   buffer, message_with_id, conn, full, alive, wire, sentTo,
                   added, reads, hangups, accepts, calls>>
    /\ UNCHANGED clientVars

\* the send of line 50 returns (it blocks while the peer is not reading) and
\* the loop runs on to its next send, or to its end
BcSend(s) ==
    /\ alive
    /\ pc[s] = "bc_send"
    /\ client_sockets[i[s]] \notin full
    /\ Send(s, client_sockets[i[s]])
    /\ UNCHANGED <<client_sockets, clients_mutex, new_socket, client_id,
                   buffer, message_with_id, full, added, reads, hangups,
                   accepts, calls>>
    /\ UNCHANGED clientVars

\* the mutex is released and the session is back at the top of its loop,
\* where the buffer is cleared (line 92) before the next read
BcUnlock(s) ==
    /\ alive
    /\ pc[s] = "bc_unlock"
    /\ MutexUnlock(s)
    /\ pc' = [pc EXCEPT ![s] = "read"]
    /\ buffer' = [buffer EXCEPT ![s] = NoPayload]
    /\ message_with_id' = [message_with_id EXCEPT ![s] = NoMessage]
    /\ i' = [i EXCEPT ![s] = 0]
    /\ sentTo' = [sentTo EXCEPT ![s] = {}]
    /\ UNCHANGED <<client_sockets, new_socket, client_id, conn, full, alive,
                   wire, added, reads, hangups, accepts, calls>>
    /\ UNCHANGED clientVars

\* remove_client, server.c:33-42
RmLock(s) ==
    /\ alive
    /\ pc[s] = "rm_lock"
    /\ MutexLock(s)
    /\ pc' = [pc EXCEPT ![s] = "rm_cs"]
    /\ UNCHANGED <<client_sockets, new_socket, client_id, buffer,
                   message_with_id, i, conn, full, alive, wire, sentTo, added,
                   reads, hangups, accepts, calls>>
    /\ UNCHANGED clientVars

RmBody(s) ==
    /\ alive
    /\ pc[s] = "rm_cs"
    /\ client_sockets' = RemoveClientScan(client_sockets, new_socket[s])
    /\ added' = added \ {new_socket[s]}
    /\ pc' = [pc EXCEPT ![s] = "rm_unlock"]
    /\ UNCHANGED <<clients_mutex, new_socket, client_id, buffer,
                   message_with_id, i, conn, full, alive, wire, sentTo, reads,
                   hangups, accepts, calls>>
    /\ UNCHANGED clientVars

RmUnlock(s) ==
    /\ alive
    /\ pc[s] = "rm_unlock"
    /\ MutexUnlock(s)
    /\ pc' = [pc EXCEPT ![s] = "close"]
    /\ UNCHANGED <<client_sockets, new_socket, client_id, buffer,
                   message_with_id, i, conn, full, alive, wire, sentTo, added,
                   reads, hangups, accepts, calls>>
    /\ UNCHANGED clientVars

\* lines 110-113: the socket is closed and the thread exits
Close(s) ==
    /\ alive
    /\ pc[s] = "close"
    /\ CloseSocket(new_socket[s])
    /\ pc' = [pc EXCEPT ![s] = "done"]
    /\ UNCHANGED <<client_sockets, clients_mutex, new_socket, client_id,
                   buffer, message_with_id, i, alive, wire, sentTo, added,
                   reads, hangups, accepts, calls>>
    /\ UNCHANGED clientVars

\* ------------------------------------------------------------ the clients
\* a client closes its end (client.c:85) or its process ends
PeerClose(h) ==
    /\ alive
    /\ conn[h] = "up"
    /\ \E s \in Accepted : new_socket[s] = h /\ pc[s] \notin {"none", "done"}
    /\ hangups < MaxHangups
    /\ conn' = [conn EXCEPT ![h] = "peer_closed"]
    /\ full' = full \ {h}
    /\ hangups' = hangups + 1
    /\ UNCHANGED <<client_sockets, clients_mutex, pc, new_socket, client_id,
                   buffer, message_with_id, i, alive, wire, sentTo, added,
                   reads, accepts, calls>>
    /\ UNCHANGED clientVars

Next ==
    \/ Accept
    \/ \E s \in Sessions :
        \/ Start(s)
        \/ AddLock(s) \/ AddBody(s) \/ AddUnlock(s)
        \/ ReadPayload(s) \/ ReadEnd(s)
        \/ BcLock(s) \/ BcScan(s) \/ BcSend(s) \/ BcUnlock(s)
        \/ RmLock(s) \/ RmBody(s) \/ RmUnlock(s)
        \/ Close(s)
    \/ \E h \in Handles : PeerClose(h)

Spec == Init /\ [][Next]_vars

\* The steps a session's thread takes by itself once it is scheduled: all of
\* handle_client but the read that returns a payload, which waits for the
\* client to send.  A thread at pthread_mutex_lock runs on when the mutex is
\* free, a thread in send when the peer's connection takes the bytes.
Thread(s) ==
    \/ Start(s)
    \/ AddLock(s) \/ AddBody(s) \/ AddUnlock(s)
    \/ ReadEnd(s)
    \/ BcLock(s) \/ BcScan(s) \/ BcSend(s) \/ BcUnlock(s)
    \/ RmLock(s) \/ RmBody(s) \/ RmUnlock(s)
    \/ Close(s)

\* every thread that can run is scheduled in the end
FairSpec == Spec /\ \A s \in Accepted : WF_vars(Thread(s))

\* ------------------------------------- the server with a client that sends
\* The server started with one client connected, registered and reading, that
\* client sending too: a sender that is there before and after the clients
\* accepted during the run.
FirstPeer == 1

PeerReadPayload == ReadInto(FirstPeer)

ReuseNext == Next \/ PeerReadPayload

ReuseSpec == InitFor(FirstPeer, {}) /\ [][ReuseNext]_vars

\* ------------------------------------------------ the registry on its own
\* add_client and remove_client called one after the other by one caller, with
\* any handle and in any order: the registry as the interface the spec calls
\* ConnectionRegistry.  The caller runs the same steps as a session does.
RegCaller == MAX_CLIENTS
RegHandles == {1, 2}

RegCall ==
    /\ calls < MaxCalls
    /\ pc[RegCaller] \in {"none", "read", "close"}
    /\ \E h \in RegHandles :
        /\ new_socket' = [new_socket EXCEPT ![RegCaller] = h]
        /\ \/ pc' = [pc EXCEPT ![RegCaller] = "add_lock"]
           \/ pc' = [pc EXCEPT ![RegCaller] = "rm_lock"]
    /\ calls' = calls + 1
    /\ UNCHANGED <<client_sockets, clients_mutex, client_id, buffer,
                   message_with_id, i, conn, full, alive, wire, sentTo, added,
                   reads, hangups, accepts>>
    /\ UNCHANGED clientVars

RegNext ==
    \/ RegCall
    \/ AddLock(RegCaller) \/ AddBody(RegCaller) \/ AddUnlock(RegCaller)
    \/ RmLock(RegCaller) \/ RmBody(RegCaller) \/ RmUnlock(RegCaller)

RegSpec == InitFor(0, {}) /\ [][RegNext]_vars

\* ------------------------------------------------ one client, client.c
\* A client process on its own: the send loop of start_client and the thread
\* running receive_messages, on a socket that is "up", at "eof" (the server
\* has closed its end), "reset" (the connection was reset and the error is
\* pending), "dead" (reset, the error already reported) or "closed" (closed
\* by the client itself).

\* what fgets hands to the send loop: the characters of a line, the newline
\* last unless the input ended without one
Lines ==
    {<<"e", "x", "i", "t", "\n">>, <<"e", "x", "i", "t">>,
     <<"e", "x", "i", "t", " ", "\n">>, <<"h", "i", "\n">>, <<"\n">>}

\* strcspn(buffer, "\n")
StrCSpn(l) ==
    IF \E k \in 1..Len(l) : l[k] = "\n"
    THEN Min({k \in 1..Len(l) : l[k] = "\n"}) - 1
    ELSE Len(l)

\* buffer[strcspn(buffer, "\n")] = '\0', client.c:75
StripNewline(l) == SubSeq(l, 1, StrCSpn(l))

\* client.c:69-85, one turn of the send loop: on "exit" the loop is left and
\* the socket closed; any other line is sent, with flags 0, so that a send on
\* a connection that was reset ends the process with SIGPIPE
SendLoop ==
    /\ tx_pc = "loop"
    /\ \E l \in Lines :
        LET b == StripNewline(l)
        IN  IF b = <<"e", "x", "i", "t">>
            THEN /\ tx_pc' = "closed"
                 /\ client_sock' = "closed"
                 /\ UNCHANGED sent
            ELSE /\ Len(sent) < MaxLines
                 /\ IF client_sock \in {"reset", "dead"}
                    THEN tx_pc' = "exited" /\ UNCHANGED <<client_sock, sent>>
                    ELSE /\ sent' = Append(sent, b)
                         /\ client_sock' =
                                IF client_sock = "eof" THEN "reset"
                                ELSE client_sock
                         /\ UNCHANGED tx_pc
    /\ UNCHANGED <<valread, rx_reads, printed>>
    /\ UNCHANGED serverVars

\* start_client returns to main, which returns: the process and with it the
\* receive thread end (main.c:39-47)
ClientExit ==
    /\ tx_pc = "closed"
    /\ tx_pc' = "exited"
    /\ UNCHANGED <<client_sock, valread, rx_reads, printed, sent>>
    /\ UNCHANGED serverVars

\* how a read on the socket ends
ReadResult(st) ==
    CASE st = "up" -> "data"
      [] st \in {"eof", "dead"} -> "eof"
      [] st \in {"reset", "closed"} -> "error"

\* client.c:17-23, one turn of the receive loop: the read, and the print when
\* it brought bytes; the loop has no exit
ReceiveMessages ==
    /\ tx_pc # "exited"
    /\ rx_reads < MaxRxReads
    /\ valread' = ReadResult(client_sock)
    /\ printed' = IF valread' = "data" THEN printed + 1 ELSE printed
    /\ rx_reads' = rx_reads + 1
    /\ client_sock' = IF client_sock = "reset" THEN "dead" ELSE client_sock
    /\ UNCHANGED <<tx_pc, sent>>
    /\ UNCHANGED serverVars

\* the server closes the connection (server.c:110)
ServerCloses ==
    /\ client_sock = "up"
    /\ client_sock' = "eof"
    /\ UNCHANGED <<valread, rx_reads, printed, tx_pc, sent>>
    /\ UNCHANGED serverVars

\* the connection is reset: the server process has ended with bytes of the
\* client unread
ServerResets ==
    /\ client_sock = "up"
    /\ client_sock' = "reset"
    /\ UNCHANGED <<valread, rx_reads, printed, tx_pc, sent>>
    /\ UNCHANGED serverVars

ClientNext ==
    \/ SendLoop
    \/ ClientExit
    \/ ReceiveMessages
    \/ ServerCloses
    \/ ServerResets

ClientSpec == InitFor(0, {}) /\ [][ClientNext]_vars

\* ------------------------------------------------- the session life cycle
Lifecycle(s) ==
    CASE pc[s] = "none" -> "NotAccepted"
      [] pc[s] \in {"start", "add_lock", "add_cs", "add_unlock"} -> "Connecting"
      [] pc[s] \in {"read", "bc_lock", "bc_scan", "bc_send", "bc_unlock"} -> "Active"
      [] pc[s] \in {"rm_lock", "rm_cs", "rm_unlock", "close"} -> "Closing"
      [] pc[s] = "done" -> "Closed"

\* the session is inside add_client, remove_client or broadcast_message,
\* between the lock and the unlock
InCritical(s) ==
    pc[s] \in {"add_cs", "add_unlock", "bc_scan", "bc_send", "bc_unlock",
               "rm_cs", "rm_unlock"}

\* ------------------------------------------------------------------ claims

\* C1: when a broadcast from the session with handle h has run through the
\* registry, the handles it has written to are exactly the handles that have
\* been passed to add_client and not yet to remove_client, without h.
C1_BroadcastWritesToAllAdded ==
    \A s \in Sessions :
        pc[s] = "bc_unlock" => sentTo[s] = added \ {new_socket[s]}

\* C2: whenever a session is writing to a peer's handle, what it writes is
\* the tag with its own id followed by exactly the payload it read (all of its
\* bytes and nothing after them), and no write of a session's message has
\* gone to the session's own handle.
C2_PeerGetsTagAndPayload ==
    /\ \A s \in Sessions :
           pc[s] = "bc_send" =>
               /\ message_with_id[s] = [id |-> client_id[s],
                                        taken |-> buffer[s].len, extra |-> 0]
               /\ client_sockets[i[s]] # new_socket[s]
    /\ \A h \in Handles :
           \A k \in 1..Len(wire[h]) : new_socket[wire[h][k].from] # h

\* C3: every session running its read loop has its handle in the registry.
C3_ActiveSessionsAreRegistered ==
    \A s \in Sessions :
        Lifecycle(s) = "Active" => new_socket[s] \in Registered(client_sockets)

\* C4: no session is in a write to a peer while it holds the registry lock.
C4_NoWriteUnderLock ==
    \A s \in Sessions : pc[s] = "bc_send" => clients_mutex # s

\* C5: a failed write ends neither the broadcast nor the process: the server
\* process stays alive, and a broadcast that has run through the registry has
\* written to every registered peer but the sender.
C5_FailedWriteIsNotFatal ==
    /\ alive
    /\ \A s \in Sessions :
           pc[s] = "bc_unlock" =>
               sentTo[s] = Registered(client_sockets) \ {new_socket[s]}

C7_AddOfRegisteredChangesNothing ==
    [][\A s \in Sessions :
          (pc[s] = "add_cs" /\ pc'[s] = "add_unlock"
               /\ new_socket[s] \in Registered(client_sockets))
          => client_sockets' = client_sockets]_vars

\* C8: at most one session is between the lock and the unlock of add_client,
\* remove_client or broadcast_message, where client_sockets is read and
\* written; the session that is there holds clients_mutex, and a session that
\* is not there does not hold it.
C8_MutualExclusion ==
    /\ Cardinality({s \in Sessions : InCritical(s)}) <= 1
    /\ \A s \in Sessions : InCritical(s) <=> clients_mutex = s
    /\ clients_mutex \in Sessions \cup {0}

\* one session is in a critical section while another waits for the mutex
C8_Witness ==
    \E s, t \in Sessions :
        /\ s # t
        /\ InCritical(s)
        /\ pc[t] \in {"add_lock", "bc_lock", "rm_lock"}

RankOf(p) ==
    CASE p = "none" -> 0
      [] p \in {"start", "add_lock", "add_cs", "add_unlock"} -> 1
      [] p \in {"read", "bc_lock", "bc_scan", "bc_send", "bc_unlock"} -> 2
      [] p \in {"rm_lock", "rm_cs", "rm_unlock", "close"} -> 3
      [] p = "done" -> 4

\* a step of session s along Connecting -> Active -> Closing -> Closed
ChainStep(s) == RankOf(pc'[s]) \in {RankOf(pc[s]), RankOf(pc[s]) + 1}

\* the step of a session whose allocation failed: from Connecting to Closed,
\* closing its transport, its handle never registered
AllocFailStep(s) ==
    /\ pc[s] = "start" /\ pc'[s] = "done"
    /\ conn'[new_socket[s]] = "free"
    /\ new_socket[s] \notin added
    /\ new_socket[s] \notin Registered(client_sockets)

\* what C9 says beside the order of the states: the handle is registered
\* before the first read, a write of a broadcast comes from an Active session,
\* the handle is deregistered before it is closed, and a Closed session has
\* no part in anything
LifecycleDuties ==
    /\ [](\A s \in Sessions :
            /\ Lifecycle(s) = "Active" => new_socket[s] \in added
            /\ pc[s] = "close" =>
                   /\ new_socket[s] \notin added
                   /\ new_socket[s] \notin Registered(client_sockets)
                   /\ conn[new_socket[s]] # "free"
            /\ pc[s] = "done" => clients_mutex # s)
    /\ [][\A h \in Handles :
             (wire'[h] # wire[h] /\ wire'[h] # <<>>)
             => Lifecycle(wire'[h][Len(wire'[h])].from) = "Active"]_vars

TeardownStep(s) ==
    /\ pc[s] \in {"read", "rm_lock", "rm_cs", "rm_unlock", "close"}
    /\ pc'[s] \in {"rm_lock", "rm_cs", "rm_unlock", "close", "done"}
    /\ pc'[s] # pc[s]

\* C10: the teardown of a session changes no other session's position and
\* handle, no slot of the registry that holds another handle, no other
\* descriptor's connection, and does not end the process.
C10_TeardownIsLocal ==
    [][\A s \in Sessions :
          TeardownStep(s) =>
              /\ \A t \in Sessions \ {s} :
                     pc'[t] = pc[t] /\ new_socket'[t] = new_socket[t]
              /\ \A k \in Slots :
                     client_sockets[k] # new_socket[s]
                         => client_sockets'[k] = client_sockets[k]
              /\ \A h \in Handles \ {new_socket[s]} : conn'[h] = conn[h]
              /\ alive' = alive]_vars

\* a session has been torn down while another one is Active and registered
C10_Witness ==
    \E s, t \in Accepted :
        /\ s # t
        /\ pc[s] = "done" /\ client_id[s] # 0
        /\ Lifecycle(t) = "Active"
        /\ new_socket[t] \in Registered(client_sockets)

\* C11: the messages of one sender reach a peer in the order the sender read
\* them: on every connection, of two writes made by the same session the
\* earlier one carries the payload that was read earlier, and a session that
\* is broadcasting has written nothing yet that was read later than what it
\* is broadcasting.
C11_SenderOrder ==
    /\ \A h \in Handles :
           \A j, k \in 1..Len(wire[h]) :
               (j < k /\ wire[h][j].from = wire[h][k].from)
                   => wire[h][j].no < wire[h][k].no
    /\ \A s \in Sessions :
           pc[s] \in {"bc_lock", "bc_scan", "bc_send"} =>
               \A h \in Handles :
                   \A k \in 1..Len(wire[h]) :
                       wire[h][k].from = s => wire[h][k].no <= buffer[s].no

\* a peer has been written two messages of one sender while a third session
\* was connected
C11_Witness ==
    \E h \in Handles :
        /\ Len(wire[h]) = 2
        /\ wire[h][1].from = wire[h][2].from
        /\ \E t \in Accepted :
               t # wire[h][1].from /\ new_socket[t] # h /\ pc[t] # "none"

\* the client of session s has closed its end and s has not yet closed its own
ClientGone(s) ==
    /\ pc[s] \notin {"none", "done"}
    /\ conn[new_socket[s]] = "peer_closed"

\* C12: after a client has exited, its session's read returns end-of-stream
\* and the session deregisters the handle and closes it in the end; meanwhile
\* the server keeps running and every other session whose client is connected
\* stays Active and registered.
C12_ExitLeavesOthersRunning ==
    /\ \A s \in Accepted : ClientGone(s) ~> pc[s] = "done"
    /\ [](hangups > 0 => alive)
    /\ [][\A t \in Sessions :
             (Lifecycle(t) = "Active" /\ conn[new_socket[t]] = "up")
             => /\ Lifecycle(t)' = "Active"
                /\ new_socket[t] \in Registered(client_sockets)
                       => new_socket[t] \in Registered(client_sockets')]_vars

\* C13: a session whose read has returned end-of-stream or an error (it has
\* left its read loop) deregisters its handle and reaches Closed in the end,
\* whatever the other sessions are doing, in every run in which the server
\* process is not ended from outside the session.
C13_TeardownCompletes ==
    \A s \in Accepted :
        Lifecycle(s) = "Closing"
            ~> ((pc[s] = "done" /\ new_socket[s] \notin added) \/ ~ alive)

\* the step of session s that runs the loop of add_client
AddStep(s) == pc[s] = "add_cs" /\ pc'[s] = "add_unlock"

\* C14: the registry holds at most MAX_CLIENTS handles; add_client of a
\* handle that is not registered registers it exactly when fewer than
\* MAX_CLIENTS handles are registered, and with MAX_CLIENTS registered it
\* changes no slot and the caller goes on as after any add_client; after a
\* remove_client on a full registry an add_client of a new handle registers it.
C14_Capacity ==
    /\ [](/\ Cardinality(Registered(client_sockets)) <= MAX_CLIENTS
          /\ Cardinality(Registered(client_sockets)) = MAX_CLIENTS
             => \A h \in Registered(client_sockets) :
                    \A g \in Handles \ Registered(client_sockets) :
                        g \in Registered(AddClientScan(
                                  RemoveClientScan(client_sockets, h), g)))
    /\ [][\A s \in Sessions :
             (AddStep(s) /\ new_socket[s] \notin Registered(client_sockets))
             => /\ new_socket[s] \in Registered(client_sockets')
                    <=> Cardinality(Registered(client_sockets)) < MAX_CLIENTS
                /\ Cardinality(Registered(client_sockets)) = MAX_CLIENTS
                    => (client_sockets' = client_sockets /\ alive')
                /\ Cardinality(Registered(client_sockets')) <=
                       Cardinality(Registered(client_sockets)) + 1]_vars

\* add_client has run for a session whose handle found the registry full
C14_Witness ==
    \E s \in Accepted :
        /\ pc[s] = "add_unlock"
        /\ new_socket[s] \notin Registered(client_sockets)
        /\ Cardinality(Registered(client_sockets)) = MAX_CLIENTS

\* C15: no handle is in more than one slot of the registry, also when the
\* value of a handle that was closed is handed out again to a later
\* connection; and a registered handle is the open handle of a session that
\* has added it and not yet removed it.
C15_NoHandleTwice ==
    /\ \A j, k \in Slots :
           (j # k /\ client_sockets[j] # 0)
               => client_sockets[j] # client_sockets[k]
    /\ \A h \in Registered(client_sockets) :
           /\ conn[h] # "free"
           /\ h \in added
           /\ Cardinality({s \in Sessions :
                  new_socket[s] = h /\ pc[s] \notin {"none", "done"}}) = 1

\* a handle is registered for the second time: the session it belonged to has
\* removed and closed it, and a later session holds the same value
C15_Witness ==
    \E s, t \in Accepted :
        /\ s # t
        /\ pc[s] = "done" /\ client_id[s] # 0 /\ hangups > 0
        /\ new_socket[t] = new_socket[s]
        /\ new_socket[t] \in Registered(client_sockets)

\* session s is in a write of its broadcast (the send of server.c:50)
Writing(s) == pc[s] = "bc_send"

AllocFailed(s) == pc[s] = "done" /\ client_id[s] = 0

\* C17: the step of a session whose allocation fails closes the session's own
\* handle, which is not and does not become registered, and changes nothing
\* else: not the registry, not the mutex, no other session, no other
\* connection, nothing written; the process goes on, and no write is ever made
\* on behalf of such a session.
C17_AllocFailureIsLocal ==
    /\ [][\A s \in Sessions :
             (pc[s] = "start" /\ pc'[s] = "done")
             => /\ conn'[new_socket[s]] = "free"
                /\ new_socket[s] \notin added
                /\ new_socket[s] \notin Registered(client_sockets)
                /\ client_sockets' = client_sockets
                /\ added' = added
                /\ clients_mutex' = clients_mutex
                /\ wire' = wire /\ sentTo' = sentTo
                /\ alive'
                /\ \A t \in Sessions \ {s} :
                       /\ pc'[t] = pc[t]
                       /\ new_socket'[t] = new_socket[t]
                       /\ client_id'[t] = client_id[t]
                /\ \A h \in Handles \ {new_socket[s]} : conn'[h] = conn[h]]_vars
    /\ [](\A s \in Sessions :
            AllocFailed(s) =>
                /\ sentTo[s] = {}
                /\ clients_mutex # s
                /\ \A h \in Handles :
                       \A k \in 1..Len(wire[h]) : wire[h][k].from # s)

\* a session's allocation has failed while another session is Active and
\* registered and has broadcast
C17_Witness ==
    \E s, t \in Accepted :
        /\ AllocFailed(s)
        /\ Lifecycle(t) = "Active"
        /\ new_socket[t] \in Registered(client_sockets)
        /\ \E h \in Handles : wire[h] # <<>>

\* C18: the receive loop prints every read that brought bytes and no other,
\* and once a read has returned an error it makes no further read.
C18_ReceiveStopsOnError ==
    /\ [][rx_reads' # rx_reads
             => (printed' = printed + 1 <=> valread' = "data")]_vars
    /\ [][valread = "error" => rx_reads' = rx_reads]_vars

\* the sessions that have handle h now: accepted with it and not yet Closed
Owners(h) == {t \in Sessions : new_socket[t] = h /\ pc[t] \notin {"none", "done"}}

\* C19: every handle a broadcast writes to is open and is the handle of a
\* session that has added it, has not removed it and has not closed it; so
\* no write goes to a handle that was closed, or to a later connection through
\* the slot of an earlier one that had the same handle value.
C19_WritesGoToOpenHandles ==
    \A s \in Sessions :
        Writing(s) =>
            LET h == client_sockets[i[s]]
            IN  /\ h # 0
                /\ conn[h] # "free"
                /\ h \in added
                /\ Cardinality(Owners(h)) = 1
                /\ \A t \in Owners(h) :
                       pc[t] \in {"read", "bc_lock", "rm_lock"}

\* a broadcast is writing to a handle whose value belonged to an earlier
\* session, which was registered, has removed it and closed it
C19_Witness ==
    \E s \in Sessions :
        /\ Writing(s)
        /\ \E u \in Sessions :
               /\ pc[u] = "done" /\ client_id[u] # 0
               /\ new_socket[u] = client_sockets[i[s]]

\* session s is in the fan-out of a broadcast: in the loop over the registry
FanOut(s) == pc[s] \in {"bc_scan", "bc_send"}

\* C20: two messages that have both been written to each of two peers were
\* written to both in the same order, and while a broadcast is in its fan-out
\* the registry does not change.
C20_BroadcastsAreAtomic ==
    /\ [](\A g, h \in Handles :
            \A j, k \in 1..Len(wire[g]) :
                \A l, m \in 1..Len(wire[h]) :
                    (/\ j < k
                     /\ wire[h][l].no = wire[g][j].no
                     /\ wire[h][m].no = wire[g][k].no) => l < m)
    /\ [][(\E s \in Sessions : FanOut(s))
             => (client_sockets' = client_sockets /\ added' = added)]_vars

\* two peers have both been written a message of one sender and are being
\* written a message of another, while a third session waits to add or to
\* remove its handle
C20_Witness ==
    \E s, t \in Sessions :
        /\ s # t
        /\ Writing(s)
        /\ pc[t] \in {"add_lock", "rm_lock"}
        /\ \E g, h \in Handles :
               /\ g # h
               /\ Len(wire[g]) = 2 /\ Len(wire[h]) = 2
               /\ wire[g][1].from # s /\ wire[g][2].from = s
               /\ wire[h][1].from # s /\ wire[h][2].from = s

====
